---------------------------- MODULE Spec2Model ----------------------------
(***************************************************************************)
(* A model of src/.streamlit/streamlit_app.py: the cached CSV fetch, the   *)
(* tidier, the period filter, the rebaser and the page script that chains  *)
(* them.                                                                   *)
(*                                                                         *)
(* Representation.                                                         *)
(*   - a text (a column header, a raw cell) is a sequence of characters;   *)
(*   - a parsed cell is <<>> (null: NaN / NaT / NA) or <<v>>;              *)
(*   - a date is the integer yyyymmdd, so date order is integer order;     *)
(*   - a number is held in fixed point, in units of 10^-FracDigits;        *)
(*   - a table is [cols, rows]; a row is [idx, cells]: idx is the pandas   *)
(*     index label (the position of the row in the raw table), cells is    *)
(*     aligned with cols.                                                  *)
(***************************************************************************)
EXTENDS Integers, Sequences, FiniteSets, TLC

VARIABLES
    pc,        \* position: of the page script, or of the function under test
    arg,       \* the arguments of the function under test
    ret,       \* its outcome
    now,       \* the clock the cache reads, in seconds
    cache,     \* st.cache_data's store for fetch_csv: url -> <<>> or <<entry>>
    hist,      \* history: url -> <<>> or <<the last successful fetch>>
    call,      \* the last fetch_csv call: what it did
    csv_url,   \* the text input's value
    error,     \* the script's variable error ("" stands for None)
    df,        \* the script's variable df
    period,    \* the period selector's value
    picked,    \* the multiselect's value
    dff,       \* the script's variable dff
    dfn,       \* the script's variable dfn
    ui,        \* what this run rendered, in order
    calls      \* the pipeline functions this run called, in order

appVars == <<now, cache, hist, call, csv_url, error, df, period, picked, dff, dfn, ui, calls>>
fnVars == <<arg, ret>>
vars == <<pc, arg, ret, now, cache, hist, call, csv_url, error, df, period, picked, dff, dfn, ui, calls>>

----------------------------------------------------------------------------
(* Bounds of the model. *)

\* rows of a raw table with two columns
MaxRows == 2
\* rows of a raw table with three columns
MaxWideRows == 1
\* fractional digits a number keeps in the fixed-point representation
FracDigits == 2
\* rows of a tidy table given to filter_period
MaxFilterRows == 3
\* rows of a filtered table given to normalize_from_first
MaxNormRows == 3
\* names in the list of selected columns given to normalize_from_first
MaxCols == 2
\* the last second of the clock
MaxClock == 600

----------------------------------------------------------------------------
(* Generic helpers. *)

NULL == <<>>
IsNull(c) == c = <<>>
Val(c) == c[1]

Min2(a, b) == IF a <= b THEN a ELSE b

SetMax(S) == CHOOSE x \in S : \A y \in S : y <= x
SetMin(S) == CHOOSE x \in S : \A y \in S : x <= y

RECURSIVE Pow10(_)
Pow10(n) == IF n = 0 THEN 1 ELSE 10 * Pow10(n - 1)

Abs(x) == IF x < 0 THEN -x ELSE x

RECURSIVE Gcd(_, _)
Gcd(a, b) == IF b = 0 THEN a ELSE Gcd(b, a % b)

Range(s) == {s[i] : i \in 1..Len(s)}

\* the positions of name in cols
Positions(cols, name) == {i \in 1..Len(cols) : cols[i] = name}

----------------------------------------------------------------------------
(* Texts. *)

Whitespace == {" ", "\t"}
DigitChars == <<"0", "1", "2", "3", "4", "5", "6", "7", "8", "9">>
IsDigit(c) == \E i \in 1..10 : DigitChars[i] = c
DigitVal(c) == (CHOOSE i \in 1..10 : DigitChars[i] = c) - 1

\* str.strip(): leading and trailing whitespace removed
RECURSIVE LStrip(_)
LStrip(s) == IF s # <<>> /\ Head(s) \in Whitespace THEN LStrip(Tail(s)) ELSE s

RECURSIVE RStrip(_)
RStrip(s) ==
    IF s # <<>> /\ s[Len(s)] \in Whitespace THEN RStrip(SubSeq(s, 1, Len(s) - 1)) ELSE s

Strip(s) == RStrip(LStrip(s))

\* str.replace(" ", "") then str.replace(",", ".")
RECURSIVE RemoveSpaces(_)
RemoveSpaces(s) ==
    IF s = <<>> THEN <<>>
    ELSE IF Head(s) = " " THEN RemoveSpaces(Tail(s))
    ELSE <<Head(s)>> \o RemoveSpaces(Tail(s))

CommaToPeriod(s) == [i \in 1..Len(s) |-> IF s[i] = "," THEN "." ELSE s[i]]

\* the value of a run of digits
RECURSIVE DigitsValue(_)
DigitsValue(s) ==
    IF s = <<>> THEN 0 ELSE 10 * DigitsValue(SubSeq(s, 1, Len(s) - 1)) + DigitVal(s[Len(s)])

AllDigits(s) == \A i \in 1..Len(s) : IsDigit(s[i])

----------------------------------------------------------------------------
(* Dates. *)

MkDate(y, m, d) == y * 10000 + m * 100 + d
Year(d) == d \div 10000
Month(d) == (d \div 100) % 100
Day(d) == d % 100

IsLeap(y) == (y % 4 = 0 /\ y % 100 # 0) \/ y % 400 = 0

DaysInMonth(y, m) ==
    IF m = 2 THEN (IF IsLeap(y) THEN 29 ELSE 28)
    ELSE IF m \in {4, 6, 9, 11} THEN 30
    ELSE 31

\* SubMonths without the clamp of the day
SubMonthsNoClamp(d, n) ==
    LET total == Year(d) * 12 + (Month(d) - 1) - n
    IN MkDate(total \div 12, (total % 12) + 1, Day(d))

\* end - pd.DateOffset(months=n): the month moves, the day is clamped to the
\* target month's length
SubMonths(d, n) ==
    LET total == Year(d) * 12 + (Month(d) - 1) - n
        y == total \div 12
        m == (total % 12) + 1
    IN MkDate(y, m, Min2(Day(d), DaysInMonth(y, m)))

\* end - pd.DateOffset(years=n)
SubYears(d, n) ==
    LET y == Year(d) - n
    IN MkDate(y, Month(d), Min2(Day(d), DaysInMonth(y, Month(d))))

----------------------------------------------------------------------------
(* coerce_numbers and the date parse, cell by cell. *)

\* pd.to_numeric(..., errors="coerce") of a cleaned text: an optional sign,
\* digits, and at most one period with digits around it. The value is held in
\* units of 10^-FracDigits (digits past FracDigits are cut: no text of the
\* model has them).
ToNumeric(s) ==
    LET neg == s # <<>> /\ Head(s) = "-"
        body == IF neg THEN Tail(s) ELSE s
        dots == {i \in 1..Len(body) : body[i] = "."}
        ip == IF dots = {} THEN body
              ELSE SubSeq(body, 1, SetMin(dots) - 1)
        fp == IF dots = {} THEN <<>>
              ELSE SubSeq(body, SetMin(dots) + 1, Len(body))
        fpCut == SubSeq(fp, 1, Min2(Len(fp), FracDigits))
        mag == DigitsValue(ip) * Pow10(FracDigits)
               + DigitsValue(fpCut) * Pow10(FracDigits - Len(fpCut))
    IN IF Cardinality(dots) <= 1 /\ AllDigits(ip) /\ AllDigits(fp)
          /\ Len(ip) + Len(fp) > 0
       THEN <<IF neg THEN -mag ELSE mag>>
       ELSE NULL

\* coerce_numbers on one cell: an empty (missing) cell is NaN, astype(str)
\* makes it "nan", which to_numeric reads as NaN again
coerce_numbers(text) == ToNumeric(CommaToPeriod(RemoveSpaces(text)))

\* pd.to_datetime(..., dayfirst=True, errors="coerce") on one cell, for the
\* texts dd/mm/yyyy and dd.mm.yyyy: the first field is the day. Anything else
\* is NaT. (Texts whose reading depends on the pandas version, such as
\* 01/13/2024, are not among the model's texts.)
ParseDate(text) ==
    IF /\ Len(text) = 10
       /\ text[3] \in {"/", "."} /\ text[6] = text[3]
       /\ \A i \in {1, 2, 4, 5, 7, 8, 9, 10} : IsDigit(text[i])
    THEN LET d == DigitsValue(SubSeq(text, 1, 2))
             m == DigitsValue(SubSeq(text, 4, 5))
             y == DigitsValue(SubSeq(text, 7, 10))
         IN IF m \in 1..12 /\ d >= 1 /\ d <= DaysInMonth(y, m)
            THEN <<MkDate(y, m, d)>>
            ELSE NULL
    ELSE NULL

----------------------------------------------------------------------------
(* tidy_df. *)

cDate == <<"D", "a", "t", "e">>

SchemaMsg == "Fant ikke kolonnen 'Date' i CSV."
DuplicateKeysMsg == "cannot assemble with duplicate keys"
NoStrMsg == "'DataFrame' object has no attribute 'str'"

\* StripColumns that leaves the headers as they are
StripColumnsUntrimmed(cols) == cols

\* df.columns = [c.strip() for c in df.columns]
StripColumns(cols) == [i \in 1..Len(cols) |-> Strip(cols[i])]

DateIdx(cols) == CHOOSE i \in 1..Len(cols) : cols[i] = cDate
DateOf(cols, row) == row.cells[DateIdx(cols)]

\* lines 67-71: the Date column through to_datetime, every other column
\* through coerce_numbers; the index label of a row is its raw position
ParseRows(cols, rawRows) ==
    [i \in 1..Len(rawRows) |->
        [idx |-> i,
         cells |-> [j \in 1..Len(cols) |->
                       IF cols[j] = cDate THEN ParseDate(rawRows[i][j])
                       ELSE coerce_numbers(rawRows[i][j])]]]

\* df.dropna(subset=["Date"])
DropNa(cols, rows) == SelectSeq(rows, LAMBDA r : ~IsNull(DateOf(cols, r)))

IsSortedByDate(cols, rows) ==
    \A i \in 1..Len(rows) - 1 :
        Val(DateOf(cols, rows[i])) <= Val(DateOf(cols, rows[i + 1]))

\* .sort_values("Date"): the default kind is "quicksort", which pandas and
\* numpy document as not stable, so the order of rows with equal Date is any
SortValues(cols, rows) ==
    LET n == Len(rows)
        perms == {p \in [1..n -> 1..n] : \A i, j \in 1..n : i # j => p[i] # p[j]}
    IN {s \in {[i \in 1..n |-> rows[p[i]]] : p \in perms} : IsSortedByDate(cols, s)}

\* The outcomes of tidy_df(raw): a raised exception or a table.
tidy_df(raw) ==
    LET cols == StripColumns(raw.cols)
    IN IF Positions(cols, cDate) = {}
       THEN {[ok |-> FALSE, exc |-> "ValueError", msg |-> SchemaMsg]}
       ELSE IF Cardinality(Positions(cols, cDate)) > 1
       THEN \* df["Date"] is a frame; to_datetime refuses it
            {[ok |-> FALSE, exc |-> "ValueError", msg |-> DuplicateKeysMsg]}
       ELSE IF \E i, j \in 1..Len(cols) : i # j /\ cols[i] = cols[j]
       THEN \* df[c] is a frame, which has no .str
            {[ok |-> FALSE, exc |-> "AttributeError", msg |-> NoStrMsg]}
       ELSE {[ok |-> TRUE, df |-> [cols |-> cols, rows |-> s]] :
                s \in SortValues(cols, DropNa(cols, ParseRows(cols, raw.rows)))}

----------------------------------------------------------------------------
(* Inputs of the tidier's specification. *)

cDatePad == <<" ", "D", "a", "t", "e", " ">>
cDateTab == <<"D", "a", "t", "e", "\t">>
cLower == <<"d", "a", "t", "e">>
cInner == <<"D", "a", " ", "t", "e">>
cA == <<"A">>
cAPad == <<" ", "A">>
cB == <<"B">>

\* 02/01/2024: the 2nd of January, day first
tJan2 == <<"0", "2", "/", "0", "1", "/", "2", "0", "2", "4">>
\* 01.02.2024: the 1st of February
tFeb1 == <<"0", "1", ".", "0", "2", ".", "2", "0", "2", "4">>
tJunk == <<"a", "b", "c">>
tEmpty == <<>>
\* "1 234,56"
tNum == <<"1", " ", "2", "3", "4", ",", "5", "6">>

CellTexts == {tJan2, tFeb1, tJunk, tEmpty, tNum}

HeaderRows ==
    {<<cDate, cA>>, <<cDatePad, cA>>, <<cA, cDateTab>>, <<cLower, cA>>,
     <<cInner, cA>>, <<cA, cB>>, <<cDate, cDatePad>>, <<cDate, cA, cAPad>>}

RowLimit(h) == IF Len(h) > 2 THEN MaxWideRows ELSE MaxRows

\* the raw tables with header row h and k rows
RawTablesOf(h, k) == {[cols |-> h, rows |-> r] : r \in [1..k -> [1..Len(h) -> CellTexts]]}

----------------------------------------------------------------------------
(* Defaults of the variables a specification does not use. *)

NoRet == [ok |-> FALSE, exc |-> "none", msg |-> ""]
NoTable == [cols |-> <<>>, rows |-> <<>>]
NoCall == [url |-> "", at |-> 0, prior |-> <<>>, gets |-> 0, ok |-> FALSE, result |-> NoTable]

AppIdle ==
    /\ now = 0
    /\ cache = <<>>
    /\ hist = <<>>
    /\ call = NoCall
    /\ csv_url = ""
    /\ error = ""
    /\ df = NoTable
    /\ period = ""
    /\ picked = <<>>
    /\ dff = NoTable
    /\ dfn = NoTable
    /\ ui = <<>>
    /\ calls = <<>>

----------------------------------------------------------------------------
(* The tidier's specification: tidy_df applied to every raw table. *)

InitTidy ==
    /\ pc = "call"
    /\ \E h \in HeaderRows :
          \E k \in 0..RowLimit(h) :
             \E t \in RawTablesOf(h, k) : arg = [df |-> t]
    /\ ret = NoRet
    /\ AppIdle

CallTidy ==
    /\ pc = "call"
    /\ \E o \in tidy_df(arg.df) : ret' = o
    /\ pc' = "ret"
    /\ UNCHANGED <<arg, appVars>>

NextTidy == CallTidy

SpecTidy == InitTidy /\ [][NextTidy]_vars


----------------------------------------------------------------------------
(* Properties of tidy_df. *)

IsBlank(s) == \A i \in 1..Len(s) : s[i] \in Whitespace

\* h is 'Date' between a run of whitespace and a run of whitespace
TrimsToDate(h) ==
    \E a \in 0..Len(h) :
        /\ a + Len(cDate) <= Len(h)
        /\ SubSeq(h, a + 1, a + Len(cDate)) = cDate
        /\ IsBlank(SubSeq(h, 1, a))
        /\ IsBlank(SubSeq(h, a + Len(cDate) + 1, Len(h)))

DateHeaders(cols) == {i \in 1..Len(cols) : TrimsToDate(cols[i])}

\* the trimmed headers of a raw table are pairwise distinct
DistinctHeaders(cols) ==
    \A i, j \in 1..Len(cols) : i # j => StripColumns(cols)[i] # StripColumns(cols)[j]

\* C2: tidy_df raises the schema error exactly when no header is 'Date' after
\* trimming; a failure carries no table; and a padded header such as ' Date '
\* is taken as the Date column (its cells are the parsed dates).
C2_SchemaErrorIffNoDate ==
    pc = "ret" =>
        /\ (~ret.ok /\ ret.msg = SchemaMsg) <=> (DateHeaders(arg.df.cols) = {})
        /\ ~ret.ok => "df" \notin DOMAIN ret
        /\ (ret.ok /\ \E i \in 1..Len(arg.df.cols) : arg.df.cols[i] = cDatePad) =>
              LET k == CHOOSE i \in 1..Len(arg.df.cols) : arg.df.cols[i] = cDatePad
              IN /\ ret.df.cols[k] = cDate
                 /\ \A n \in 1..Len(ret.df.rows) :
                       ret.df.rows[n].cells[k] # NULL
                       /\ Val(ret.df.rows[n].cells[k]) \in {20240102, 20240201}

\* a table whose Date header is padded was tidied to a table with rows
C2_Witness ==
    /\ pc = "ret"
    /\ ret.ok
    /\ arg.df.cols[1] = cDatePad
    /\ Len(ret.df.rows) = 2

\* the rows tidy_df should keep: those whose Date text is a date
ParseableRows(raw) ==
    LET k == CHOOSE i \in DateHeaders(raw.cols) : TRUE
    IN {i \in 1..Len(raw.rows) : raw.rows[i][k] \in {tJan2, tFeb1}}

\* what C8 says of a raw table with a Date column and of the table returned
KeepsParseableRows(raw, out) ==
    /\ {out.rows[n].idx : n \in 1..Len(out.rows)} = ParseableRows(raw)
    /\ Len(out.rows) = Cardinality(ParseableRows(raw))
    /\ \A n \in 1..Len(out.rows) :
          LET r == out.rows[n] IN
          \A j \in 1..Len(raw.cols) :
             LET text == raw.rows[r.idx][j] IN
             IF j \in DateHeaders(raw.cols)
             THEN r.cells[j] # NULL
             ELSE r.cells[j] = (IF text = tNum THEN <<123456 * Pow10(FracDigits - 2)>> ELSE NULL)

\* C8: for every raw table with a Date column, tidy_df returns exactly the rows
\* whose Date text is a date, none with a null Date, with every unparseable
\* numeric cell null and the parseable ones parsed.
C8_KeepsExactlyParseableRows ==
    (pc = "ret" /\ DateHeaders(arg.df.cols) # {}) =>
        (ret.ok /\ KeepsParseableRows(arg.df, ret.df))

\* a raw table with a Date column whose trimmed headers collide was tidied
C8_Witness ==
    /\ pc = "ret"
    /\ arg.df.cols = <<cDate, cA, cAPad>>
    /\ Len(arg.df.rows) = 1
    /\ arg.df.rows[1][1] = tJan2

\* C8 holds of the raw tables whose trimmed headers are pairwise distinct
TidyKeepsParseableRowsWhenHeadersDistinct ==
    (pc = "ret" /\ DateHeaders(arg.df.cols) # {} /\ DistinctHeaders(arg.df.cols)) =>
        (ret.ok /\ KeepsParseableRows(arg.df, ret.df))

\* C9: the rows tidy_df returns ascend by Date, equal dates are all kept, and
\* rows of equal Date keep the relative order they had in the raw table.
C9_SortedAndStable ==
    (pc = "ret" /\ ret.ok) =>
        LET rows == ret.df.rows
            cols == ret.df.cols
        IN /\ \A i, j \in 1..Len(rows) :
                 i < j => Val(DateOf(cols, rows[i])) <= Val(DateOf(cols, rows[j]))
           /\ Len(rows) = Cardinality(ParseableRows(arg.df))
           /\ \A i, j \in 1..Len(rows) :
                 (i < j /\ DateOf(cols, rows[i]) = DateOf(cols, rows[j]))
                    => rows[i].idx < rows[j].idx

\* two raw rows with the same Date were tidied
C9_Witness ==
    /\ pc = "ret"
    /\ ret.ok
    /\ Len(ret.df.rows) = 2
    /\ DateOf(ret.df.cols, ret.df.rows[1]) = DateOf(ret.df.cols, ret.df.rows[2])

\* the part of C9 that holds: ascending by Date, every parseable row kept once
TidySortedAndComplete ==
    (pc = "ret" /\ ret.ok) =>
        /\ IsSortedByDate(ret.df.cols, ret.df.rows)
        /\ Len(ret.df.rows) = Cardinality(ParseableRows(arg.df))
        /\ {ret.df.rows[n].idx : n \in 1..Len(ret.df.rows)} = ParseableRows(arg.df)


----------------------------------------------------------------------------
(* filter_period. *)

Dates(t) == {Val(DateOf(t.cols, t.rows[i])) : i \in 1..Len(t.rows)}

\* lines 79-88: the start of the window for a period key
PeriodStart(t, period_key, end) ==
    IF period_key = "1M" THEN SubMonths(end, 1)
    ELSE IF period_key = "3M" THEN SubMonths(end, 3)
    ELSE IF period_key = "YTD" THEN MkDate(Year(end), 1, 1)
    ELSE IF period_key = "1Y" THEN SubYears(end, 1)
    ELSE SetMin(Dates(t))

\* Between with the end excluded
BetweenEndExcluded(d, start, end) == start <= d /\ d < end

\* Series.between(start, end): both ends inclusive
Between(d, start, end) == start <= d /\ d <= end

filter_period(t, period_key) ==
    IF t.rows = <<>> THEN t
    ELSE LET end == SetMax(Dates(t))
             start == PeriodStart(t, period_key, end)
         IN [t EXCEPT !.rows =
                SelectSeq(t.rows, LAMBDA r : Between(Val(DateOf(t.cols, r)), start, end))]

----------------------------------------------------------------------------
(* The filter's specification: filter_period applied to every tidy table of *)
(* DatePool and every period key.                                           *)

PeriodOptions == {"1M", "3M", "YTD", "1Y", "MAX"}
\* a key outside the options, and the selector's None
PeriodKeys == PeriodOptions \cup {"5Y", "None"}

DatePool ==
    {20230228, 20230330, 20230331, 20231230, 20231231, 20240101,
     20240228, 20240229, 20240301, 20240331, 20240430, 20240531}

\* tidy tables: rows ascending by Date, equal dates allowed
TidyTablesOver(dates, k) ==
    {[cols |-> <<cDate, cA>>,
      rows |-> [i \in 1..k |-> [idx |-> i, cells |-> <<<<f[i]>>, <<100>>>>]]] :
        f \in {g \in [1..k -> dates] : \A i \in 1..k - 1 : g[i] <= g[i + 1]}}


InitFilter ==
    /\ pc = "call"
    /\ \E n \in 0..MaxFilterRows :
          \E t \in TidyTablesOver(DatePool, n), k \in PeriodKeys :
             arg = [df |-> t, period_key |-> k]
    /\ ret = NoRet
    /\ AppIdle

CallFilter ==
    /\ pc = "call"
    /\ ret' = [ok |-> TRUE, df |-> filter_period(arg.df, arg.period_key)]
    /\ pc' = "ret"
    /\ UNCHANGED <<arg, appVars>>

NextFilter == CallFilter

SpecFilter == InitFilter /\ [][NextFilter]_vars

----------------------------------------------------------------------------
(* Properties of filter_period. *)

CalendarDates ==
    {MkDate(y, m, d) : y \in 2022..2024, m \in 1..12, d \in 1..31} \cap
    {x \in 20220101..20241231 :
        Month(x) \in 1..12 /\ Day(x) \in 1..DaysInMonth(Year(x), Month(x))}

MonthIndex(d) == Year(d) * 12 + Month(d)

\* n calendar months before d: the same day of the month n months back, or
\* the last day of that month when it is shorter
MonthsBefore(d, n) ==
    SetMax({x \in CalendarDates : MonthIndex(x) = MonthIndex(d) - n /\ Day(x) <= Day(d)})

ExpectedStart(t, key) ==
    LET end == SetMax(Dates(t))
    IN CASE key = "1M" -> MonthsBefore(end, 1)
         [] key = "3M" -> MonthsBefore(end, 3)
         [] key = "YTD" -> SetMin({x \in CalendarDates : Year(x) = Year(end)})
         [] key = "1Y" -> MonthsBefore(end, 12)
         [] OTHER -> SetMin(Dates(t))

\* out holds exactly the rows of t dated in [lo, hi], in the order of t
IsWindow(t, out, lo, hi) ==
    /\ out.cols = t.cols
    /\ \A i \in 1..Len(t.rows) :
          (lo <= Val(DateOf(t.cols, t.rows[i])) /\ Val(DateOf(t.cols, t.rows[i])) <= hi)
             <=> (\E n \in 1..Len(out.rows) : out.rows[n] = t.rows[i])
    /\ \A n \in 1..Len(out.rows) : \E i \in 1..Len(t.rows) : out.rows[n] = t.rows[i]
    /\ \A m, n \in 1..Len(out.rows) : m < n => out.rows[m].idx < out.rows[n].idx

\* C3: filter_period returns exactly the rows dated in [start, end], in input
\* order, end the greatest Date and start as the period key says, the day
\* clamped to the target month (2024-03-31 less a month is 2024-02-29); an
\* empty table is returned unchanged; it never fails.
C3_FilterIsInclusiveWindow ==
    pc = "ret" =>
        /\ ret.ok
        /\ arg.df.rows = <<>> => ret.df = arg.df
        /\ arg.df.rows # <<>> =>
              IsWindow(arg.df, ret.df, ExpectedStart(arg.df, arg.period_key),
                       SetMax(Dates(arg.df)))
        /\ (arg.period_key = "1M" /\ arg.df.rows # <<>> /\ SetMax(Dates(arg.df)) = 20240331) =>
              Dates(ret.df) = {d \in Dates(arg.df) : d >= 20240229}

\* 1M on a table that ends 2024-03-31: 2024-02-29 is in, 2024-02-28 is out
C3_Witness ==
    /\ pc = "ret"
    /\ arg.period_key = "1M"
    /\ Dates(arg.df) = {20240228, 20240229, 20240331}
    /\ Dates(ret.df) = {20240229, 20240331}


----------------------------------------------------------------------------
(* normalize_from_first. *)

\* A quotient n/d in lowest terms with d > 0; a division by zero gives what
\* IEEE arithmetic gives: <<1, 0>> (+inf), <<-1, 0>> (-inf) or null (NaN).
Quotient(n, d) ==
    IF d = 0 THEN (IF n = 0 THEN NULL ELSE IF n > 0 THEN <<1, 0>> ELSE <<-1, 0>>)
    ELSE LET g == Gcd(Abs(n), Abs(d))
             sgn == IF d < 0 THEN -1 ELSE 1
         IN <<(sgn * n) \div g, (sgn * d) \div g>>

\* Rebase without the subtraction of 1: value / base * 100
RebaseRatioOnly(cell, base) ==
    IF IsNull(cell) THEN NULL
    ELSE LET q == Quotient(Val(cell), base)
         IN IF IsNull(q) THEN NULL
            ELSE IF q[2] = 0 THEN q
            ELSE Quotient(q[1] * 100, q[2])

\* line 100: (value / base - 1.0) * 100.0 of one cell
Rebase(cell, base) ==
    IF IsNull(cell) THEN NULL
    ELSE LET q == Quotient(Val(cell), base)
         IN IF IsNull(q) THEN NULL
            ELSE IF q[2] = 0 THEN q
            ELSE Quotient((q[1] - q[2]) * 100, q[2])

ColIdx(cols, c) == CHOOSE i \in 1..Len(cols) : cols[i] = c

\* line 95: df[c].dropna()
DropNaValues(t, c) ==
    SelectSeq([i \in 1..Len(t.rows) |-> t.rows[i].cells[ColIdx(t.cols, c)]],
              LAMBDA x : ~IsNull(x))

\* lines 95-100: the output column for c
RebasedColumn(t, c) ==
    LET s == DropNaValues(t, c)
    IN IF s = <<>> THEN [i \in 1..Len(t.rows) |-> NULL]
       ELSE [i \in 1..Len(t.rows) |-> Rebase(t.rows[i].cells[ColIdx(t.cols, c)], Val(s[1]))]

\* the names of cols in the order of their first occurrence: assigning out[c]
\* a second time replaces the column
RECURSIVE FirstOccurrences(_)
FirstOccurrences(cols) ==
    IF cols = <<>> THEN <<>>
    ELSE LET init == FirstOccurrences(SubSeq(cols, 1, Len(cols) - 1))
             last == cols[Len(cols)]
         IN IF last \in Range(init) THEN init ELSE Append(init, last)

\* The outcome of normalize_from_first(t, cols): df[c] raises KeyError for a
\* name that is no column of t.
normalize_from_first(t, cols) ==
    IF \E i \in 1..Len(cols) : Positions(t.cols, cols[i]) = {}
    THEN [ok |-> FALSE, exc |-> "KeyError", msg |-> "KeyError"]
    ELSE LET names == FirstOccurrences(cols)
         IN [ok |-> TRUE,
             df |-> [cols |-> <<cDate>> \o names,
                     rows |-> [i \in 1..Len(t.rows) |->
                                 [idx |-> t.rows[i].idx,
                                  cells |-> <<DateOf(t.cols, t.rows[i])>> \o
                                            [j \in 1..Len(names) |->
                                               RebasedColumn(t, names[j])[i]]]]]]

----------------------------------------------------------------------------
(* The rebaser's specification: normalize_from_first applied to every       *)
(* filtered table over ValuesA and ValuesB and every list of names.         *)

cC == <<"C">>

ValuesA == {NULL, <<0>>, <<90>>, <<100>>, <<110>>}
ValuesB == {NULL, <<-50>>, <<25>>}

NormTablesOf(k) ==
    {[cols |-> <<cDate, cA, cB>>,
      rows |-> [i \in 1..k |-> [idx |-> i, cells |-> <<<<20240100 + i>>, a[i], b[i]>>]]] :
        a \in [1..k -> ValuesA], b \in [1..k -> ValuesB]}

\* lists of k names; C is no column of the tables
NameLists(k) == [1..k -> {cA, cB, cC}]

InitNorm ==
    /\ pc = "call"
    /\ \E n \in 0..MaxNormRows, k \in 0..MaxCols :
          \E t \in NormTablesOf(n), c \in NameLists(k) :
             arg = [df |-> t, cols |-> c]
    /\ ret = NoRet
    /\ AppIdle

CallNorm ==
    /\ pc = "call"
    /\ ret' = normalize_from_first(arg.df, arg.cols)
    /\ pc' = "ret"
    /\ UNCHANGED <<arg, appVars>>

NextNorm == CallNorm

SpecNorm == InitNorm /\ [][NextNorm]_vars


----------------------------------------------------------------------------
(* Properties of normalize_from_first. *)

\* the cells of column c of table t, top to bottom
Column(t, c) == [i \in 1..Len(t.rows) |-> t.rows[i].cells[ColIdx(t.cols, c)]]

HasColumn(t, c) == \E i \in 1..Len(t.cols) : t.cols[i] = c

AllNull(col) == \A i \in 1..Len(col) : col[i] = NULL

\* the first row of col that holds a value
FirstValueRow(col) == SetMin({i \in 1..Len(col) : col[i] # NULL})

\* y is the number (v / b - 1) * 100, b not zero
IsPercentChange(y, v, b) ==
    /\ y # NULL
    /\ y[2] > 0
    /\ y[1] * b = 100 * (v - b) * y[2]

SameRowsAndDates(t, out) ==
    /\ Len(out.rows) = Len(t.rows)
    /\ \A i \in 1..Len(t.rows) :
          /\ DateOf(out.cols, out.rows[i]) = DateOf(t.cols, t.rows[i])
          /\ out.rows[i].idx = t.rows[i].idx

\* what C4 says of one selected column: x the input cells, y the output cells
RebasedFromFirst(x, y) ==
    /\ Len(y) = Len(x)
    /\ \A i \in 1..Len(x) : x[i] = NULL => y[i] = NULL
    /\ AllNull(x) => AllNull(y)
    /\ ~AllNull(x) =>
          LET f == FirstValueRow(x)
              b == Val(x[f])
          IN /\ \A i \in 1..Len(x) : x[i] # NULL => IsPercentChange(y[i], Val(x[i]), b)
             /\ y[f] = <<0, 1>>
    /\ x = <<<<100>>, <<110>>, <<90>>>> => y = <<<<0, 1>>, <<10, 1>>, <<-10, 1>>>>

\* the same with what a base of zero gives: 0/0 is null, v/0 is an infinity
RebasedFromFirstOrZeroBase(x, y) ==
    /\ Len(y) = Len(x)
    /\ \A i \in 1..Len(x) : x[i] = NULL => y[i] = NULL
    /\ AllNull(x) => AllNull(y)
    /\ ~AllNull(x) =>
          LET f == FirstValueRow(x)
              b == Val(x[f])
          IN IF b # 0
             THEN /\ \A i \in 1..Len(x) : x[i] # NULL => IsPercentChange(y[i], Val(x[i]), b)
                  /\ y[f] = <<0, 1>>
             ELSE \A i \in 1..Len(x) :
                     x[i] # NULL =>
                        y[i] = (IF Val(x[i]) = 0 THEN NULL
                                ELSE IF Val(x[i]) > 0 THEN <<1, 0>> ELSE <<-1, 0>>)
    /\ x = <<<<100>>, <<110>>, <<90>>>> => y = <<<<0, 1>>, <<10, 1>>, <<-10, 1>>>>

AllSelectedPresent == \A i \in 1..Len(arg.cols) : HasColumn(arg.df, arg.cols[i])

\* C4 as stated: every selected column present in the table is rebased from
\* its first non-null value, the row that supplies the base getting 0.
C4_RebasedFromFirstValue ==
    (pc = "ret" /\ AllSelectedPresent) =>
        /\ ret.ok
        /\ SameRowsAndDates(arg.df, ret.df)
        /\ \A i \in 1..Len(arg.cols) :
              /\ HasColumn(ret.df, arg.cols[i])
              /\ RebasedFromFirst(Column(arg.df, arg.cols[i]), Column(ret.df, arg.cols[i]))

\* C4 as amended: the same, and when the base is zero the cells of that column
\* are what the division by zero gives: null for a value of 0 (the base row
\* among them), plus or minus infinity for the others.
C4_RebasedFromFirstValueOrZeroBase ==
    (pc = "ret" /\ AllSelectedPresent) =>
        /\ ret.ok
        /\ SameRowsAndDates(arg.df, ret.df)
        /\ \A i \in 1..Len(arg.cols) :
              /\ HasColumn(ret.df, arg.cols[i])
              /\ RebasedFromFirstOrZeroBase(Column(arg.df, arg.cols[i]),
                                            Column(ret.df, arg.cols[i]))

\* the column [100, 110, 90] was rebased to [0, 10, -10], beside a column
\* whose first row is null
C4_Witness ==
    /\ pc = "ret"
    /\ arg.cols = <<cB, cA>>
    /\ Column(arg.df, cA) = <<<<100>>, <<110>>, <<90>>>>
    /\ Column(arg.df, cB) = <<NULL, <<-50>>, <<25>>>>
    /\ ret.ok
    /\ Column(ret.df, cA) = <<<<0, 1>>, <<10, 1>>, <<-10, 1>>>>
    /\ Column(ret.df, cB) = <<NULL, <<0, 1>>, <<-150, 1>>>>

\* C5: normalize_from_first returns a table for every table and every list of
\* names, and a selected name that is no column of the input, like a column
\* that is entirely null, is an all-null column of the output.
C5_NeverFails ==
    pc = "ret" =>
        /\ ret.ok
        /\ \A i \in 1..Len(arg.cols) :
              (~HasColumn(arg.df, arg.cols[i]) \/ AllNull(Column(arg.df, arg.cols[i])))
                 => (HasColumn(ret.df, arg.cols[i]) /\ AllNull(Column(ret.df, arg.cols[i])))

\* a name that is no column of the table was selected
C5_Witness ==
    /\ pc = "ret"
    /\ arg.cols = <<cA, cC>>
    /\ Len(arg.df.rows) = 1
    /\ ~ret.ok

\* the part of C5 that holds: with every selected name a column of the table,
\* a table is returned and an entirely null column stays entirely null
NormalizeTotalOnPresentColumns ==
    (pc = "ret" /\ AllSelectedPresent) =>
        /\ ret.ok
        /\ \A i \in 1..Len(arg.cols) :
              AllNull(Column(arg.df, arg.cols[i])) => AllNull(Column(ret.df, arg.cols[i]))


----------------------------------------------------------------------------
(* fetch_csv behind st.cache_data(ttl=300). *)

\* @st.cache_data(ttl=300): seconds an entry lives
TTL == 300

URLs == {"u1", "u2"}

\* A lookup that takes an entry until its expiry time included
FreshUntilExpiry(entry, t) == entry # <<>> /\ t <= entry[1].expires

\* The cache's lookup: an entry is returned while the clock is before its
\* expiry time (the time it was stored plus the ttl)
Fresh(entry, t) == entry # <<>> /\ t < entry[1].expires

\* The message of the exception a response makes fetch_csv raise:
\* requests.get raises on a network failure and on a timeout,
\* raise_for_status on a 4xx/5xx status, pd.read_csv on a body it cannot parse
FetchErrorMsg(kind) ==
    CASE kind = "network" -> "ConnectionError: failed to establish a new connection"
      [] kind = "timeout" -> "ReadTimeout: read timed out. (read timeout=60)"
      [] kind = "http_status" -> "HTTPError: 404 Client Error"
      [] kind = "parse" -> "EmptyDataError: No columns to parse from file"

FetchErrorType(kind) ==
    CASE kind = "network" -> "ConnectionError"
      [] kind = "timeout" -> "ReadTimeout"
      [] kind = "http_status" -> "HTTPError"
      [] kind = "parse" -> "EmptyDataError"

\* fetch_csv(url) when the source would answer resp: the outcome, the GETs
\* issued and the store afterwards. A fresh entry is returned without running
\* the body; otherwise the body runs once, and only a returned value is stored.
fetch_csv(url, resp) ==
    IF Fresh(cache[url], now)
    THEN [ok |-> TRUE, df |-> cache[url][1].value, gets |-> 0, store |-> cache]
    ELSE IF resp.kind = "ok"
    THEN [ok |-> TRUE, df |-> resp.table, gets |-> 1,
          store |-> [cache EXCEPT ![url] = <<[value |-> resp.table, expires |-> now + TTL]>>]]
    ELSE [ok |-> FALSE, exc |-> FetchErrorType(resp.kind), msg |-> FetchErrorMsg(resp.kind),
          gets |-> 1, store |-> cache]

\* the history of successful GETs after a call
HistAfter(url, resp, r) ==
    IF r.gets = 1 /\ r.ok THEN [hist EXCEPT ![url] = <<[at |-> now, table |-> resp.table]>>]
    ELSE hist

CallRecord(url, r) ==
    [url |-> url, at |-> now, prior |-> hist[url], gets |-> r.gets, ok |-> r.ok,
     result |-> IF r.ok THEN r.df ELSE NoTable]

----------------------------------------------------------------------------
(* The page script, lines 130-189: one run per user interaction. *)

\* except Exception: what the handler of line 155 catches
\* (a handler for ValueError alone)
CatchesValueErrorOnly(exc) == exc = "ValueError"

\* except Exception: every exception the two calls raise is an Exception
CatchesException(exc) == TRUE

\* if error: a non-empty message is true
IsTruthy(msg) == msg # ""

\* line 162
AllSeries(t) == SelectSeq(t.cols, LAMBDA c : c # cDate)

\* what the multiselect can return: the options chosen, in the order chosen
Selections(options) ==
    UNION {{f \in [1..k -> Range(options)] : \A i, j \in 1..k : i # j => f[i] # f[j]} :
              k \in 0..Len(options)}

\* the condition of line 172 with the selection forgotten
IsEmptyStateWindowOnly(window, selection) == window.rows = <<>>

\* line 172: dff.empty or not picked
IsEmptyState(window, selection) == window.rows = <<>> \/ selection = <<>>

\* the texts of the published sheets
t31Mar23 == <<"3", "1", "/", "0", "3", "/", "2", "0", "2", "3">>
t28Feb24 == <<"2", "8", "/", "0", "2", "/", "2", "0", "2", "4">>
t29Feb24 == <<"2", "9", "/", "0", "2", "/", "2", "0", "2", "4">>
t31Mar24 == <<"3", "1", "/", "0", "3", "/", "2", "0", "2", "4">>
t100 == <<"1", "0", "0">>
t110 == <<"1", "1", "0">>
t90 == <<"9", "0">>
t0 == <<"0">>

\* a sheet over a year, its rows out of order, with a bad date and bad numbers
SheetYear ==
    [cols |-> <<cDatePad, cA, cB>>,
     rows |-> <<<<t31Mar24, t90, tNum>>, <<t31Mar23, t100, tJunk>>, <<tJunk, t100, t100>>,
                <<t29Feb24, t110, tEmpty>>, <<t28Feb24, tJunk, t0>>>>]
\* a sheet with two rows of the same date
SheetTie ==
    [cols |-> <<cA, cDate>>, rows |-> <<<<t100, tJan2>>, <<t110, tJan2>>, <<t90, tFeb1>>>>]
\* a sheet with no Date column
SheetNoDate == [cols |-> <<cLower, cA>>, rows |-> <<<<tJan2, t100>>>>]
\* a sheet none of whose dates parse
SheetBadDates == [cols |-> <<cDate, cA>>, rows |-> <<<<tJunk, t100>>, <<tEmpty, t110>>>>]
\* a sheet with a header row only
SheetNoRows == [cols |-> <<cDate, cA>>, rows |-> <<>>]
\* a sheet with a Date column only
SheetNoSeries == [cols |-> <<cDate>>, rows |-> <<<<tJan2>>>>]
\* a sheet whose trimmed headers collide
SheetCollide == [cols |-> <<cDate, cA, cAPad>>, rows |-> <<<<tJan2, t100, t110>>>>]

Sheets == {SheetYear, SheetTie, SheetNoDate, SheetBadDates, SheetNoRows, SheetNoSeries,
           SheetCollide}

Responses ==
    {[kind |-> "ok", table |-> t] : t \in Sheets} \cup
    {[kind |-> k] : k \in {"network", "timeout", "http_status", "parse"}}

\* the selector's options, and None when the choice is cleared
PeriodValues == PeriodOptions \cup {"None"}

\* the clock's steps: half a ttl, and a second less than a ttl
TickSteps == {150, 299}

\* CSV_URL_DEFAULT, the text input's value when the user leaves it alone
CSV_URL_DEFAULT == "u1"

Init ==
    /\ pc = "start"
    /\ arg = [df |-> NoTable]
    /\ ret = NoRet
    /\ now = 0
    /\ cache = [u \in URLs |-> <<>>]
    /\ hist = [u \in URLs |-> <<>>]
    /\ call = NoCall
    /\ csv_url = ""
    /\ error = ""
    /\ df = NoTable
    /\ period = ""
    /\ picked = <<>>
    /\ dff = NoTable
    /\ dfn = NoTable
    /\ ui = <<>>
    /\ calls = <<>>

\* the clock advances between two runs
Tick ==
    /\ pc = "start"
    /\ \E d \in TickSteps : now + d <= MaxClock /\ now' = now + d
    /\ UNCHANGED <<pc, arg, ret, cache, hist, call, csv_url, error, df, period, picked,
                   dff, dfn, ui, calls>>

\* lines 130-156: the inputs are drawn, then fetch_csv and tidy_df run in the
\* try block; an exception the handler does not catch ends the run
LoadData ==
    /\ pc = "start"
    /\ \E u \in {CSV_URL_DEFAULT}, p \in PeriodValues, resp \in Responses :
         LET r == fetch_csv(u, resp)
             tidied == IF r.ok THEN tidy_df(r.df) ELSE {r}
         IN /\ csv_url' = u
            /\ period' = p
            /\ cache' = r.store
            /\ hist' = HistAfter(u, resp, r)
            /\ call' = CallRecord(u, r)
            /\ calls' = IF r.ok THEN <<"fetch_csv", "tidy_df">> ELSE <<"fetch_csv">>
            /\ ui' = <<"text_input", "segmented_control">>
            /\ \E o \in tidied :
                 IF o.ok
                 THEN /\ df' = o.df
                      /\ error' = ""
                      /\ pc' = "loaded"
                 ELSE IF CatchesException(o.exc)
                 THEN /\ df' = NoTable
                      /\ error' = o.msg
                      /\ pc' = "loaded"
                 ELSE /\ df' = NoTable
                      /\ error' = ""
                      /\ pc' = "crashed"
    /\ UNCHANGED <<arg, ret, now, picked, dff, dfn>>

\* lines 158-159
ShowError ==
    /\ pc = "loaded"
    /\ IsTruthy(error)
    /\ ui' = Append(ui, "error")
    /\ pc' = "done"
    /\ UNCHANGED <<arg, ret, now, cache, hist, call, csv_url, error, df, period, picked,
                   dff, dfn, calls>>

\* lines 160-187
ShowSeries ==
    /\ pc = "loaded"
    /\ ~IsTruthy(error)
    /\ \E sel \in Selections(AllSeries(df)), show_tbl \in BOOLEAN :
         LET window == filter_period(df, period)
         IN /\ picked' = sel
            /\ dff' = window
            /\ IF IsEmptyState(window, sel)
               THEN /\ show_tbl = FALSE
                    /\ dfn' = NoTable
                    /\ ui' = ui \o <<"multiselect", "info">>
                    /\ calls' = Append(calls, "filter_period")
                    /\ pc' = "done"
               ELSE LET n == normalize_from_first(window, sel)
                    IN IF n.ok
                       THEN /\ dfn' = n.df
                            /\ ui' = ui \o <<"multiselect", "chart", "checkbox">>
                                        \o (IF show_tbl THEN <<"dataframe">> ELSE <<>>)
                                        \o <<"caption">>
                            /\ calls' = calls \o <<"filter_period", "normalize_from_first",
                                                   "pensum_chart">>
                            /\ pc' = "done"
                       ELSE /\ dfn' = NoTable
                            /\ ui' = Append(ui, "multiselect")
                            /\ calls' = calls \o <<"filter_period", "normalize_from_first">>
                            /\ pc' = "crashed"
    /\ UNCHANGED <<arg, ret, now, cache, hist, call, csv_url, error, df, period>>

\* the next interaction reruns the script from the top
Rerun ==
    /\ pc \in {"done", "crashed"}
    /\ pc' = "start"
    /\ csv_url' = ""
    /\ error' = ""
    /\ df' = NoTable
    /\ period' = ""
    /\ picked' = <<>>
    /\ dff' = NoTable
    /\ dfn' = NoTable
    /\ ui' = <<>>
    /\ calls' = <<>>
    /\ call' = NoCall
    /\ UNCHANGED <<arg, ret, now, cache, hist>>

Next == Tick \/ LoadData \/ ShowError \/ ShowSeries \/ Rerun

Spec == Init /\ [][Next]_vars


----------------------------------------------------------------------------
(* The cache's specification: any sequence of fetch_csv calls, for two      *)
(* URLs, and clock advances.                                                *)

CacheResponses ==
    {[kind |-> "ok", table |-> t] : t \in {SheetNoRows, SheetNoSeries}} \cup
    {[kind |-> k] : k \in {"network", "timeout", "http_status", "parse"}}

CallFetch ==
    /\ pc = "start"
    /\ \E u \in URLs, resp \in CacheResponses :
         LET r == fetch_csv(u, resp)
         IN /\ cache' = r.store
            /\ hist' = HistAfter(u, resp, r)
            /\ call' = CallRecord(u, r)
    /\ UNCHANGED <<pc, arg, ret, now, csv_url, error, df, period, picked, dff, dfn, ui, calls>>

NextCache == Tick \/ CallFetch

SpecCache == Init /\ [][NextCache]_vars


----------------------------------------------------------------------------
(* Properties of the cache. *)

\* the age of the last successful fetch of the called URL when it was called
PriorAge == call.at - call.prior[1].at

\* C1: a call issues a GET exactly when no result for its URL was fetched
\* successfully less than 300 seconds before, and then exactly one, also when
\* it fails; otherwise it returns the table fetched then, with no GET. A failed
\* fetch stores nothing.
C1_GetIffNoFreshResult ==
    call.url # "" =>
        LET fresh == call.prior # <<>> /\ PriorAge < 300
        IN /\ call.gets = (IF fresh THEN 0 ELSE 1)
           /\ fresh => (call.ok /\ call.result = call.prior[1].table)
           /\ ~call.ok =>
                 /\ call.gets = 1
                 /\ hist[call.url] = call.prior
                 /\ \/ cache[call.url] = <<>>
                    \/ /\ call.prior # <<>>
                       /\ cache[call.url][1].value = call.prior[1].table
                       /\ PriorAge >= 300

\* a call 299 seconds after a successful fetch of the same URL was served from
\* the cache, the other URL holding another table
C1_Witness ==
    /\ call.url = "u1"
    /\ call.prior # <<>>
    /\ PriorAge = 299
    /\ call.gets = 0
    /\ cache["u2"] # <<>>
    /\ cache["u2"][1].value # call.result

\* a call exactly 300 seconds after a successful fetch issued a GET, which failed
CacheExpiredAtTtl ==
    /\ call.prior # <<>>
    /\ PriorAge = 300
    /\ call.gets = 1
    /\ ~call.ok

----------------------------------------------------------------------------
(* Properties of the page script. *)

Rendered(w) == \E i \in 1..Len(ui) : ui[i] = w
Called(f) == \E i \in 1..Len(calls) : calls[i] = f

\* the fetch of this run raised, or the table it returned has no Date column
LoadFailed == ~call.ok \/ DateHeaders(call.result.cols) = {}

\* C6: a failure of the fetch or a missing Date column ends the run in the
\* error state: one error message and nothing else of the pipeline, neither
\* filter_period nor normalize_from_first called, and no uncaught exception.
\* A table with a Date column and distinct headers never does, whatever its
\* cells hold.
C6_FailuresEndInErrorState ==
    /\ pc # "crashed"
    /\ (pc \in {"loaded", "done"} /\ LoadFailed) =>
          /\ error # ""
          /\ pc = "done" =>
                /\ ui = <<"text_input", "segmented_control", "error">>
                /\ ~Called("filter_period")
                /\ ~Called("normalize_from_first")
                /\ ~Called("pensum_chart")
    /\ (pc \in {"loaded", "done"} /\ ~LoadFailed /\ DistinctHeaders(call.result.cols)) =>
          /\ error = ""
          /\ ~Rendered("error")

\* a run whose fetch timed out ended with the error message
C6_Witness ==
    /\ pc = "done"
    /\ ~call.ok
    /\ error = FetchErrorMsg("timeout")
    /\ Rendered("error")

\* a run whose sheet has no Date column ended with the error message
SchemaErrorShown ==
    /\ pc = "done"
    /\ call.ok
    /\ error = SchemaMsg
    /\ Rendered("error")

\* a run whose sheet has bad date and number cells ended with a chart
BadCellsStillChart ==
    /\ pc = "done"
    /\ call.ok
    /\ call.result = SheetYear
    /\ Rendered("chart")

\* C7: after a successful load, an empty selection or an empty window gives
\* the empty-state message, with neither normalize_from_first nor the chart
\* builder called and no exception; otherwise the chart is built from the
\* rebased table of exactly the selected columns.
C7_EmptyStateOrChart ==
    /\ pc # "crashed"
    /\ (pc = "done" /\ error = "") =>
          IF picked = <<>> \/ dff.rows = <<>>
          THEN /\ ui = <<"text_input", "segmented_control", "multiselect", "info">>
               /\ ~Called("normalize_from_first")
               /\ ~Called("pensum_chart")
          ELSE /\ Rendered("chart")
               /\ ~Rendered("info")
               /\ Called("pensum_chart")
               /\ dfn.cols = <<cDate>> \o picked
               /\ SameRowsAndDates(dff, dfn)
               /\ \A i \in 1..Len(picked) :
                     RebasedFromFirstOrZeroBase(Column(dff, picked[i]), Column(dfn, picked[i]))

\* a run with rows in the window and nothing selected showed the message
C7_Witness ==
    /\ pc = "done"
    /\ error = ""
    /\ picked = <<>>
    /\ Len(dff.rows) = 3
    /\ Rendered("info")

\* a run with two series selected showed the chart of the two
ChartOfTwoSeries ==
    /\ pc = "done"
    /\ picked = <<cB, cA>>
    /\ Rendered("chart")
    /\ Rendered("dataframe")

\* what C10 says of a tidy table t and its window w
WindowOfNonEmpty(t, w) ==
    LET end == SetMax(Dates(t))
    IN /\ w.rows # <<>>
       /\ \A i \in 1..Len(t.rows) :
             Val(DateOf(t.cols, t.rows[i])) = end => t.rows[i] \in Range(w.rows)
       /\ Range(w.rows) \subseteq Range(filter_period(t, "MAX").rows)

\* C10: the window of a non-empty tidy table is non-empty for every period
\* key, holds every row of the greatest Date, and lies within the window of
\* MAX, which is the whole table; so a run shows the empty-state message only
\* when the tidy table has no rows or nothing is selected.
C10_WindowNeverEmpty ==
    (pc = "done" /\ error = "") =>
        /\ df.rows # <<>> =>
              /\ WindowOfNonEmpty(df, dff)
              /\ \A k \in PeriodKeys : WindowOfNonEmpty(df, filter_period(df, k))
              /\ filter_period(df, "MAX") = df
        /\ Rendered("info") => (df.rows = <<>> \/ picked = <<>>)

\* a run over the sheet of a year with 1M selected kept two of the four rows
C10_Witness ==
    /\ pc = "done"
    /\ error = ""
    /\ period = "1M"
    /\ Len(df.rows) = 4
    /\ Len(dff.rows) = 2
    /\ Rendered("chart")

\* a run whose tidy table is empty showed the message with a series selected
EmptyTableShowsInfo ==
    /\ pc = "done"
    /\ error = ""
    /\ df.rows = <<>>
    /\ picked # <<>>
    /\ Rendered("info")

\* the first half of C10 over the tables of the filter's specification
FilterWindowNeverEmpty ==
    (pc = "ret" /\ arg.df.rows # <<>>) =>
        /\ WindowOfNonEmpty(arg.df, ret.df)
        /\ filter_period(arg.df, "MAX") = arg.df

=============================================================================
